---- MODULE Spec2Model ----
(***************************************************************************)
(* Model of word_file_parser: the two DocxParser classes that group the    *)
(* element sequence of a Word document into sections.                      *)
(*                                                                         *)
(*   variant "A"  src/docx_parser.py                  (sections: a list)   *)
(*   variant "B"  src/src/word_file_parser/docx_parser.py (sections: dict) *)
(*                                                                         *)
(* Strings are sequences of one-character strings, so that sanitising,     *)
(* lower-casing, joining and rendering are computed character by character.*)
(* A program instantiates one of the two classes over one document; every  *)
(* public method is one action.                                            *)
(***************************************************************************)
EXTENDS Integers, Sequences, FiniteSets, TLC

\* Longest element sequence the partitioner returns in the model.
MaxLen == 3

\* Python's None: a value that is no string (its only item is no character).
None == <<"None">>

\* An attribute the object does not have (getattr falls back to its default).
Missing == <<"Missing">>

----------------------------------------------------------------------------
(* Characters and strings *)

UpperLetters ==
  <<"A", "B", "C", "D", "E", "F", "G", "H", "I", "J", "K", "L", "M", "N", "O", "P",
    "Q", "R", "S", "T", "U", "V", "W", "X", "Y", "Z">>
LowerLetters ==
  <<"a", "b", "c", "d", "e", "f", "g", "h", "i", "j", "k", "l", "m", "n", "o", "p",
    "q", "r", "s", "t", "u", "v", "w", "x", "y", "z">>
Upper == {UpperLetters[i] : i \in DOMAIN UpperLetters}
LowerCase == {LowerLetters[i] : i \in DOMAIN LowerLetters}
Digit == {"0", "1", "2", "3", "4", "5", "6", "7", "8", "9"}

\* str.isalnum() of one character.
IsAlnum(c) == c \in Upper \cup LowerCase \cup Digit

\* str.lower() of one character.
LowerChar(c) ==
  IF c \in Upper THEN LowerLetters[CHOOSE i \in DOMAIN UpperLetters : UpperLetters[i] = c] ELSE c

\* str.lower()
Lower(s) == [i \in DOMAIN s |-> LowerChar(s[i])]

\* sep.join(parts)
RECURSIVE Join(_, _)
Join(parts, sep) ==
  IF parts = <<>> THEN <<>>
  ELSE IF Len(parts) = 1 THEN parts[1]
  ELSE parts[1] \o sep \o Join(Tail(parts), sep)

\* c * n
RECURSIVE Repeat(_, _)
Repeat(c, n) == IF n <= 0 THEN <<>> ELSE <<c>> \o Repeat(c, n - 1)

DigitChars == <<"0", "1", "2", "3", "4", "5", "6", "7", "8", "9">>

\* str(n) of a non-negative integer.
RECURSIVE IntToStr(_)
IntToStr(n) ==
  IF n < 10 THEN <<DigitChars[n + 1]>>
  ELSE IntToStr(n \div 10) \o <<DigitChars[(n % 10) + 1]>>

\* startswith
StartsWith(s, p) == Len(s) >= Len(p) /\ SubSeq(s, 1, Len(p)) = p

----------------------------------------------------------------------------
(* Elements returned by the partitioner *)

Elem(kind, text, style, image, caption) ==
  [kind |-> kind, text |-> text, style_name |-> style, image |-> image, caption |-> caption]

Introduction == <<"I", "n", "t", "r", "o", "d", "u", "c", "t", "i", "o", "n">>

StyleTitle == <<"T", "i", "t", "l", "e">>
StyleHeading2 == <<"H", "e", "a", "d", "i", "n", "g", " ", "2">>

\* The elements a document of the model is made of.
\* image is the raw bytes and caption the caption text; the code reads both only
\* for truthiness, so the empty sequence stands for None as well as for b"" and "".
\* The two non-empty titles differ, and sanitise to the same file stem.
TitleSp == Elem("Title", <<"A", " ", "b">>, StyleHeading2, <<>>, <<>>)
TitleUs == Elem("Title", <<"A", "_", "b">>, StyleTitle, <<>>, <<>>)
TitleEmpty == Elem("Title", <<>>, StyleTitle, <<>>, <<>>)
Narr == Elem("NarrativeText", <<"x">>, Missing, <<>>, <<>>)
Item == Elem("ListItem", <<"y">>, Missing, <<>>, <<>>)
Tab == Elem("Table", <<"t">>, Missing, <<>>, <<>>)
Img == Elem("Image", <<>>, Missing, <<137, 80, 78>>, <<>>)
Txt == Elem("Text", <<"z">>, Missing, <<>>, <<>>)

\* A FigureCaption is grouped by the same branches as a Table (a kind that A
\* skips and B appends), so the documents of the model hold none.
ElementPool == {TitleSp, TitleUs, TitleEmpty, Narr, Item, Tab, Img, Txt}

RECURSIVE SeqsUpTo(_, _)
SeqsUpTo(S, n) ==
  IF n = 0 THEN {<<>>}
  ELSE LET shorter == SeqsUpTo(S, n - 1)
       IN shorter \cup {Append(s, e) : s \in {t \in shorter : Len(t) = n - 1}, e \in S}

\* What partition(filename=...) may return.
Documents == SeqsUpTo(ElementPool, MaxLen)

----------------------------------------------------------------------------
(* Variant A: the list-based parser, src/docx_parser.py *)

\* Section(title, content, level)
Section(title, content, level) == [title |-> title, content |-> content, level |-> level]

\* Section.__str__
SectionStr(sec) ==
  Repeat("#", sec.level) \o <<" ">> \o sec.title \o <<"\n", "\n">> \o Join(sec.content, <<"\n">>)

\* str(element) of an unstructured element is its text.
ElemStr(e) == e.text

Heading == <<"h", "e", "a", "d", "i", "n", "g">>

\* int(c) of one character: the digit's value, or ValueError (modelled as -1).
IntOfChar(c) == IF c \in Digit THEN CHOOSE i \in 0..9 : DigitChars[i + 1] = c ELSE -1

\* getattr(element.metadata, "style_name", ""): a missing attribute reads as "",
\* an attribute that is there reads as its value, None included.
A_style_name(element) == IF element.style_name = Missing THEN <<>> ELSE element.style_name

\* DocxParser._get_heading_level raises AttributeError: style_name.lower() of None,
\* outside the try block.
A_get_heading_level_raises(element) == A_style_name(element) = None

\* DocxParser._get_heading_level, when it returns.
A_get_heading_level(element) ==
  LET style_name == A_style_name(element)
  IN IF StartsWith(Lower(style_name), Heading) /\ IntOfChar(style_name[Len(style_name)]) >= 0
     THEN IntOfChar(style_name[Len(style_name)])
     ELSE 1

\* Python truthiness of an Optional[str].
Truthy(s) == s # None /\ s # <<>>

\* The locals of parse_sections as it starts.
A_Start ==
  [sections |-> <<>>, current_section |-> None, current_content |-> <<>>,
   current_level |-> 1, title_skipped |-> FALSE, raised |-> FALSE]

\* A_Step without the skip of the first Title: every Title opens a section.
A_Step_NoSkip(st, element) ==
  IF element.kind = "Title" THEN
    [st EXCEPT
       !.sections = IF Truthy(st.current_section)
                    THEN Append(@, Section(st.current_section, st.current_content,
                                           st.current_level))
                    ELSE @,
       !.current_section = ElemStr(element),
       !.current_content = <<>>,
       !.current_level = A_get_heading_level(element)]
  ELSE IF element.kind \in {"NarrativeText", "ListItem"} THEN
    [st EXCEPT
       !.current_section = IF @ = None THEN Introduction ELSE @,
       !.current_content = Append(@, ElemStr(element))]
  ELSE st

\* One iteration of the loop of parse_sections.
\* An AttributeError of _get_heading_level leaves the loop: the section before the
\* heading is in self.sections already, the heading's own section never is.
A_Step(st, element) ==
  IF st.raised THEN st
  ELSE IF element.kind = "Title" THEN
    IF ~st.title_skipped THEN [st EXCEPT !.title_skipped = TRUE]
    ELSE [st EXCEPT
            !.sections = IF Truthy(st.current_section)
                         THEN Append(@, Section(st.current_section, st.current_content,
                                                st.current_level))
                         ELSE @,
            !.current_section = ElemStr(element),
            !.current_content = <<>>,
            !.current_level = IF A_get_heading_level_raises(element) THEN @
                              ELSE A_get_heading_level(element),
            !.raised = A_get_heading_level_raises(element)]
  ELSE IF element.kind \in {"NarrativeText", "ListItem"} THEN
    [st EXCEPT
       !.current_section = IF @ = None THEN Introduction ELSE @,
       !.current_content = Append(@, ElemStr(element))]
  ELSE st

\* The code after the loop: add the last section.
A_Finish(st) ==
  IF ~st.raised /\ Truthy(st.current_section)
  THEN Append(st.sections, Section(st.current_section, st.current_content, st.current_level))
  ELSE st.sections

RECURSIVE A_Loop(_, _)
A_Loop(st, elems) == IF elems = <<>> THEN st ELSE A_Loop(A_Step(st, Head(elems)), Tail(elems))

\* DocxParser.parse_sections: the new value of self.sections.
A_parse_sections(elems) == A_Finish(A_Loop(A_Start, elems))

\* DocxParser.parse_sections raises (the AttributeError of _get_heading_level).
A_parse_sections_raises(elems) == A_Loop(A_Start, elems).raised

----------------------------------------------------------------------------
(* Variant B: the dict-based parser, src/src/word_file_parser/docx_parser.py *)

\* A dict is a sequence of [key, value] entries in insertion order, keys unique.
DictHas(d, k) == \E i \in DOMAIN d : d[i].key = k
\* d[k] = v that adds an entry even when the key is there already.
DictSet_AlwaysAppend(d, k, v) == Append(d, [key |-> k, value |-> v])
\* d[k] of a key the dict has.
DictGet(d, k) == d[CHOOSE i \in DOMAIN d : d[i].key = k].value
\* d[k] = v: an existing key keeps its position.
DictSet(d, k, v) ==
  IF DictHas(d, k) THEN [i \in DOMAIN d |-> IF d[i].key = k THEN [key |-> k, value |-> v] ELSE d[i]]
  ELSE Append(d, [key |-> k, value |-> v])

\* The parser's fields that parse_sections reads and writes. shared says that
\* _current_elements is the very list object stored at sections[_current_section].
B_State(secs, cur, els, sh) ==
  [sections |-> secs, current_section |-> cur, current_elements |-> els, shared |-> sh]

\* One iteration of the loop of parse_sections.
B_Step(st, element) ==
  IF element.kind = "Title" THEN
    B_State(IF st.current_section # None
            THEN DictSet(st.sections, st.current_section, st.current_elements)
            ELSE st.sections,
            element.text, <<>>, FALSE)
  ELSE IF st.current_section # None THEN
    LET els == Append(st.current_elements, element)
    IN B_State(IF st.shared THEN DictSet(st.sections, st.current_section, els) ELSE st.sections,
               st.current_section, els, st.shared)
  ELSE st

\* B_Finish without the save of the last section.
B_Finish_NoSave(st) == st

\* The code after the loop: save the last section (the dict now holds the list itself).
B_Finish(st) ==
  IF st.current_section # None
  THEN B_State(DictSet(st.sections, st.current_section, st.current_elements),
               st.current_section, st.current_elements, TRUE)
  ELSE st

RECURSIVE B_Loop(_, _)
B_Loop(st, elems) == IF elems = <<>> THEN st ELSE B_Loop(B_Step(st, Head(elems)), Tail(elems))

\* DocxParser.parse_sections on the parser state st.
B_parse_sections(st, elems) == B_Finish(B_Loop(st, elems))

\* The fields as __init__ leaves them.
B_Init == B_State(<<>>, None, <<>>, FALSE)

----------------------------------------------------------------------------
(* The file system the parsers write to, and what a call returned *)

OutDir == <<"o", "u", "t">>
ImgDir == <<"i", "m", "g">>
JsonName == <<"s", ".", "j", "s", "o", "n">>
TxtExt == <<".", "t", "x", "t">>
PngExt == <<".", "p", "n", "g">>
ImageInfix == <<"_", "i", "m", "a", "g", "e", "_">>

\* Path(dir) / name
PathJoin(dir, name) == dir \o <<"/">> \o name

\* open(path, "w").write(data): the file is created or overwritten.
WriteFile(files, path, data) == (path :> data) @@ files

NoFiles == <<>>

\* The titles the callers of the model ask for.
QueryTitles == {<<"A", " ", "b">>, <<"a", " ", "b">>}

\* What the last call did: its name, its argument, and how it ended: "void"
\* (returned nothing), "None", "str" or "list" (returned value), or "ValueError".
Ret(op, arg, tag, value) == [op |-> op, arg |-> arg, tag |-> tag, value |-> value]

VARIABLES
  variant,    \* which of the two DocxParser classes was instantiated
  elements,   \* what the partitioner returns for the document
  sections,   \* self.sections
  cursor,     \* B: _current_section, _current_elements (and whether the dict shares the list)
  files,      \* the files written: path -> content
  dirs,       \* the directories created
  ret         \* the last call and its outcome

vars == <<variant, elements, sections, cursor, files, dirs, ret>>

NoCursor == [current_section |-> None, current_elements |-> <<>>, shared |-> FALSE]

\* DocxParser.__init__ of either class, over any document of the model.
Init ==
  /\ variant \in {"A", "B"}
  /\ elements \in Documents
  /\ sections = <<>>
  /\ cursor = NoCursor
  /\ files = NoFiles
  /\ dirs = {}
  /\ ret = Ret("__init__", <<>>, "void", <<>>)

----------------------------------------------------------------------------
(* Variant A: the methods *)

\* DocxParser.get_section_by_title: the index of the first section whose title
\* matches ignoring case, 0 for None.
A_get_section_by_title(secs, title) ==
  LET hits == {i \in DOMAIN secs : Lower(secs[i].title) = Lower(title)}
  IN IF hits = {} THEN 0 ELSE CHOOSE i \in hits : \A j \in hits : i <= j

\* "".join(c if c.isalnum() else "_" for c in title)
SafeTitle(title) == [i \in DOMAIN title |-> IF IsAlnum(title[i]) THEN title[i] ELSE "_"]

\* The path save_section and save_sections_to_files write a section to.
A_file_path(sec) == PathJoin(OutDir, SafeTitle(sec.title) \o TxtExt)

\* The loop of save_sections_to_files over self.sections.
RECURSIVE A_save_loop(_, _)
A_save_loop(fs, secs) ==
  IF secs = <<>> THEN fs
  ELSE A_save_loop(WriteFile(fs, A_file_path(Head(secs)), SectionStr(Head(secs))), Tail(secs))

A_ParseSections ==
  /\ variant = "A"
  /\ sections' = A_parse_sections(elements)
  /\ ret' = IF A_parse_sections_raises(elements)
            THEN Ret("parse_sections", <<>>, "AttributeError", <<>>)
            ELSE Ret("parse_sections", <<>>, "list", <<>>)
  /\ UNCHANGED <<variant, elements, cursor, files, dirs>>

A_GetSection(title) ==
  /\ variant = "A"
  /\ LET i == A_get_section_by_title(sections, title)
     IN ret' = IF i = 0 THEN Ret("get_section", title, "None", <<>>)
               ELSE Ret("get_section", title, "str", Join(sections[i].content, <<"\n">>))
  /\ UNCHANGED <<variant, elements, sections, cursor, files, dirs>>

A_SaveSection(title) ==
  /\ variant = "A"
  /\ LET i == A_get_section_by_title(sections, title)
     IN IF i = 0
        THEN /\ ret' = Ret("save_section", title, "ValueError", <<>>)
             /\ UNCHANGED <<files, dirs>>
        ELSE /\ dirs' = dirs \cup {OutDir}
             /\ files' = WriteFile(files, A_file_path(sections[i]), SectionStr(sections[i]))
             /\ ret' = Ret("save_section", title, "void", <<>>)
  /\ UNCHANGED <<variant, elements, sections, cursor>>

A_SaveSectionsToFiles ==
  /\ variant = "A"
  /\ dirs' = dirs \cup {OutDir}
  /\ files' = A_save_loop(files, sections)
  /\ ret' = Ret("save_sections_to_files", <<>>, "void", <<>>)
  /\ UNCHANGED <<variant, elements, sections, cursor>>

----------------------------------------------------------------------------
(* Variant B: the methods. Each operator takes the parser's fields o (a     *)
(* B_State) and returns them as the method leaves them, with its result.   *)

\* The element classes are taken as disjoint kinds (the tagged variant of the
\* partitioner's interface), so each isinstance test is a test of the kind.

\* DocxParser.get_section: found is "the result is not None".
B_get_section(o, elems, title) ==
  LET o1 == IF Len(o.sections) = 0 THEN B_parse_sections(o, elems) ELSE o
  IN [o |-> o1,
      found |-> DictHas(o1.sections, title),
      elements |-> IF DictHas(o1.sections, title) THEN DictGet(o1.sections, title) ELSE <<>>]

\* What get_section_text appends to text_parts for one element.
B_text_parts(element) ==
  IF element.kind \in {"NarrativeText", "ListItem", "Text"} THEN <<element.text>>
  ELSE IF element.kind = "Table" THEN <<<<"\n", "T", "a", "b", "l", "e", ":", "\n">> \o element.text>>
  ELSE IF element.kind = "Image" THEN
    <<<<"\n", "[", "I", "m", "a", "g", "e", "]">>>>
      \o (IF element.caption # <<>>
          THEN <<<<"C", "a", "p", "t", "i", "o", "n", ":", " ">> \o element.caption>>
          ELSE <<>>)
  ELSE IF element.kind = "FigureCaption"
  THEN <<<<"\n", "C", "a", "p", "t", "i", "o", "n", ":", " ">> \o element.text>>
  ELSE <<>>

RECURSIVE B_all_text_parts(_)
B_all_text_parts(els) ==
  IF els = <<>> THEN <<>> ELSE B_text_parts(Head(els)) \o B_all_text_parts(Tail(els))

\* DocxParser.get_section_text: isNone is "the result is None".
B_get_section_text(o, elems, title) ==
  LET g == B_get_section(o, elems, title)
  IN IF ~g.found \/ Len(g.elements) = 0
     THEN [o |-> g.o, isNone |-> TRUE, text |-> <<>>]
     ELSE [o |-> g.o, isNone |-> FALSE, text |-> Join(B_all_text_parts(g.elements), <<"\n">>)]

\* The name save_section gives the text file of a section.
B_text_name(title) == title \o TxtExt

\* The name save_section and to_json give the file of the image at index i (0-based).
B_image_name(title, i) == title \o ImageInfix \o IntToStr(i + 1) \o PngExt

\* The image loop of save_section, from index i on.
RECURSIVE B_save_images(_, _, _, _)
B_save_images(fs, title, els, i) ==
  IF i > Len(els) THEN fs
  ELSE B_save_images(
         IF els[i].kind = "Image" /\ els[i].image # <<>>
         THEN WriteFile(fs, PathJoin(OutDir, B_image_name(title, i - 1)), els[i].image)
         ELSE fs,
         title, els, i + 1)

\* B_save_section that creates the output directory before it looks the section up.
B_save_section_MkdirFirst(o, elems, fs, ds, title) ==
  LET g == B_get_section(o, elems, title)
  IN IF ~g.found \/ Len(g.elements) = 0
     THEN [o |-> g.o, files |-> fs, dirs |-> ds \cup {OutDir}, raised |-> TRUE]
     ELSE LET t == B_get_section_text(g.o, elems, title)
              fs1 == IF ~t.isNone /\ t.text # <<>>
                     THEN WriteFile(fs, PathJoin(OutDir, B_text_name(title)), t.text)
                     ELSE fs
          IN [o |-> t.o, files |-> B_save_images(fs1, title, g.elements, 1),
              dirs |-> ds \cup {OutDir}, raised |-> FALSE]

\* DocxParser.save_section on fields o, files fs and directories ds.
B_save_section(o, elems, fs, ds, title) ==
  LET g == B_get_section(o, elems, title)
  IN IF ~g.found \/ Len(g.elements) = 0
     THEN [o |-> g.o, files |-> fs, dirs |-> ds, raised |-> TRUE]
     ELSE LET t == B_get_section_text(g.o, elems, title)
              fs1 == IF ~t.isNone /\ t.text # <<>>
                     THEN WriteFile(fs, PathJoin(OutDir, B_text_name(title)), t.text)
                     ELSE fs
          IN [o |-> t.o, files |-> B_save_images(fs1, title, g.elements, 1),
              dirs |-> ds \cup {OutDir}, raised |-> FALSE]

\* The loop of save_sections_to_files over the keys from index i on; the first
\* ValueError of save_section ends it.
RECURSIVE B_save_loop(_, _, _, _, _)
B_save_loop(o, elems, fs, ds, i) ==
  IF i > Len(o.sections) THEN [o |-> o, files |-> fs, dirs |-> ds, raised |-> FALSE]
  ELSE LET r == B_save_section(o, elems, fs, ds, o.sections[i].key)
       IN IF r.raised THEN r ELSE B_save_loop(r.o, elems, r.files, r.dirs, i + 1)

\* DocxParser.save_sections_to_files
B_save_sections_to_files(o, elems, fs, ds) ==
  B_save_loop(IF Len(o.sections) = 0 THEN B_parse_sections(o, elems) ELSE o, elems, fs, ds, 1)

\* The base64 alphabet.
B64Chars ==
  <<"A", "B", "C", "D", "E", "F", "G", "H", "I", "J", "K", "L", "M", "N", "O", "P",
    "Q", "R", "S", "T", "U", "V", "W", "X", "Y", "Z", "a", "b", "c", "d", "e", "f",
    "g", "h", "i", "j", "k", "l", "m", "n", "o", "p", "q", "r", "s", "t", "u", "v",
    "w", "x", "y", "z", "0", "1", "2", "3", "4", "5", "6", "7", "8", "9", "+", "/">>

\* base64.b64encode(bytes).decode("utf-8")
RECURSIVE B64Encode(_)
B64Encode(bytes) ==
  IF bytes = <<>> THEN <<>>
  ELSE LET n == Len(bytes)
           b1 == bytes[1]
           b2 == IF n >= 2 THEN bytes[2] ELSE 0
           b3 == IF n >= 3 THEN bytes[3] ELSE 0
           c1 == B64Chars[(b1 \div 4) + 1]
           c2 == B64Chars[((b1 % 4) * 16 + (b2 \div 16)) + 1]
           c3 == IF n >= 2 THEN B64Chars[((b2 % 16) * 4 + (b3 \div 64)) + 1] ELSE "="
           c4 == IF n >= 3 THEN B64Chars[(b3 % 64) + 1] ELSE "="
       IN <<c1, c2, c3, c4>> \o (IF n > 3 THEN B64Encode(SubSeq(bytes, 4, n)) ELSE <<>>)

\* hasattr(element, "text"): every kind but Image carries text.
HasText(element) == element.kind # "Image"

\* The elem_data to_json builds for the element at index i (0-based) of a
\* section; a key the dict does not have is None here.
B_elem_data(section_title, element, i, image_dir) ==
  LET isImage == element.kind = "Image" /\ element.image # <<>>
  IN [type |-> element.kind,
      text |-> IF HasText(element) THEN element.text ELSE None,
      caption |-> IF element.caption # <<>> THEN element.caption ELSE None,
      table_text |-> IF element.kind = "Table" THEN element.text ELSE None,
      image_file |-> IF isImage /\ image_dir # <<>>
                     THEN PathJoin(image_dir, B_image_name(section_title, i))
                     ELSE None,
      image_base64 |-> IF isImage /\ image_dir = <<>> THEN B64Encode(element.image) ELSE None]

\* The image files to_json writes for one section.
RECURSIVE B_json_images(_, _, _, _, _)
B_json_images(fs, section_title, els, i, image_dir) ==
  IF i > Len(els) THEN fs
  ELSE B_json_images(
         IF els[i].kind = "Image" /\ els[i].image # <<>> /\ image_dir # <<>>
         THEN WriteFile(fs, PathJoin(image_dir, B_image_name(section_title, i - 1)), els[i].image)
         ELSE fs,
         section_title, els, i + 1, image_dir)

RECURSIVE B_json_all_images(_, _, _, _)
B_json_all_images(fs, secs, k, image_dir) ==
  IF k > Len(secs) THEN fs
  ELSE B_json_all_images(B_json_images(fs, secs[k].key, secs[k].value, 1, image_dir),
                         secs, k + 1, image_dir)

\* Whether to_json creates image_dir: it does when it writes an image there.
B_json_makes_image_dir(secs, image_dir) ==
  /\ image_dir # <<>>
  /\ \E k \in DOMAIN secs : \E i \in DOMAIN secs[k].value :
       secs[k].value[i].kind = "Image" /\ secs[k].value[i].image # <<>>

\* The list to_json dumps: one record per section, in the dict's order.
B_json_output(secs, image_dir) ==
  [k \in DOMAIN secs |->
     [title |-> secs[k].key,
      elements |-> [i \in DOMAIN secs[k].value |->
                      B_elem_data(secs[k].key, secs[k].value[i], i - 1, image_dir)]]]

\* DocxParser.to_json(OutDir / JsonName, image_dir); image_dir <<>> is None.
B_to_json(o, elems, fs, ds, image_dir) ==
  LET o1 == IF Len(o.sections) = 0 THEN B_parse_sections(o, elems) ELSE o
      fs1 == B_json_all_images(fs, o1.sections, 1, image_dir)
  IN [o |-> o1,
      files |-> WriteFile(fs1, PathJoin(OutDir, JsonName), B_json_output(o1.sections, image_dir)),
      dirs |-> ds \cup {OutDir}
                 \cup (IF B_json_makes_image_dir(o1.sections, image_dir) THEN {image_dir} ELSE {})]

BState == B_State(sections, cursor.current_section, cursor.current_elements, cursor.shared)

\* The fields of o written back to the parser.
B_Store(o) ==
  /\ sections' = o.sections
  /\ cursor' = [current_section |-> o.current_section,
                current_elements |-> o.current_elements, shared |-> o.shared]

B_ParseSections ==
  /\ variant = "B"
  /\ B_Store(B_parse_sections(BState, elements))
  /\ ret' = Ret("parse_sections", <<>>, "list", <<>>)
  /\ UNCHANGED <<variant, elements, files, dirs>>

B_GetSection(title) ==
  /\ variant = "B"
  /\ LET g == B_get_section(BState, elements, title)
     IN /\ B_Store(g.o)
        /\ ret' = Ret("get_section", title, IF g.found THEN "list" ELSE "None", g.elements)
  /\ UNCHANGED <<variant, elements, files, dirs>>

B_GetSectionText(title) ==
  /\ variant = "B"
  /\ LET t == B_get_section_text(BState, elements, title)
     IN /\ B_Store(t.o)
        /\ ret' = Ret("get_section_text", title, IF t.isNone THEN "None" ELSE "str", t.text)
  /\ UNCHANGED <<variant, elements, files, dirs>>

B_SaveSection(title) ==
  /\ variant = "B"
  /\ LET r == B_save_section(BState, elements, files, dirs, title)
     IN /\ B_Store(r.o)
        /\ files' = r.files
        /\ dirs' = r.dirs
        /\ ret' = Ret("save_section", title, IF r.raised THEN "ValueError" ELSE "void", <<>>)
  /\ UNCHANGED <<variant, elements>>

B_SaveSectionsToFiles ==
  /\ variant = "B"
  /\ LET r == B_save_sections_to_files(BState, elements, files, dirs)
     IN /\ B_Store(r.o)
        /\ files' = r.files
        /\ dirs' = r.dirs
        /\ ret' = Ret("save_sections_to_files", <<>>,
                      IF r.raised THEN "ValueError" ELSE "void", <<>>)
  /\ UNCHANGED <<variant, elements>>

\* The image_dir arguments of to_json: None, or a directory.
ImageDirs == {<<>>, ImgDir}

B_ToJson(image_dir) ==
  /\ variant = "B"
  /\ LET r == B_to_json(BState, elements, files, dirs, image_dir)
     IN /\ B_Store(r.o)
        /\ files' = r.files
        /\ dirs' = r.dirs
        /\ ret' = Ret("to_json", image_dir, "void", <<>>)
  /\ UNCHANGED <<variant, elements>>

----------------------------------------------------------------------------

Next ==
  \/ A_ParseSections
  \/ \E title \in QueryTitles : A_GetSection(title)
  \/ \E title \in QueryTitles : A_SaveSection(title)
  \/ A_SaveSectionsToFiles
  \/ B_ParseSections
  \/ \E title \in QueryTitles : B_GetSection(title)
  \/ \E title \in QueryTitles : B_GetSectionText(title)
  \/ \E title \in QueryTitles : B_SaveSection(title)
  \/ B_SaveSectionsToFiles
  \/ \E image_dir \in ImageDirs : B_ToJson(image_dir)

Spec == Init /\ [][Next]_vars

----------------------------------------------------------------------------
(* _get_heading_level over the style names a heading's metadata may carry *)

\* Longest tail of a style name after its first word.
MaxTail == 2

StylePrefixes ==
  {<<>>, Heading, <<"H", "e", "a", "d", "i", "n", "g">>, <<"H", "E", "A", "D", "I", "N", "G">>,
   StyleTitle, <<"h", "e", "a", "d">>}
TailChars == {" ", "0", "1", "2", "9", "g"}

\* metadata.style_name of a heading: a string, None, or no attribute at all.
StyleNames ==
  {p \o t : p \in StylePrefixes, t \in SeqsUpTo(TailChars, MaxTail)} \cup {None, Missing}

StyledTitle(style) == Elem("Title", <<"A", "_", "b">>, style, <<>>, <<>>)

\* A list-based parser over a document title followed by one styled heading.
HeadingLevelInit ==
  /\ variant = "A"
  /\ elements \in {<<TitleUs, StyledTitle(style)>> : style \in StyleNames}
  /\ sections = <<>>
  /\ cursor = NoCursor
  /\ files = NoFiles
  /\ dirs = {}
  /\ ret = Ret("__init__", <<>>, "void", <<>>)

\* self._get_heading_level(element) on a Title of the document.
A_GetHeadingLevel ==
  /\ variant = "A"
  /\ \E i \in DOMAIN elements :
       /\ elements[i].kind = "Title"
       /\ ret' = IF A_get_heading_level_raises(elements[i])
                 THEN Ret("_get_heading_level", elements[i].style_name, "AttributeError", <<>>)
                 ELSE Ret("_get_heading_level", elements[i].style_name, "int",
                          A_get_heading_level(elements[i]))
  /\ UNCHANGED <<variant, elements, sections, cursor, files, dirs>>

HeadingLevelNext ==
  \/ A_GetHeadingLevel
  \/ A_ParseSections

HeadingLevelSpec == HeadingLevelInit /\ [][HeadingLevelNext]_vars

----------------------------------------------------------------------------
(* Properties: what the input determines, stated without the parsers *)

RECURSIVE SortedSeq(_)
SortedSeq(S) ==
  IF S = {} THEN <<>>
  ELSE LET m == CHOOSE x \in S : \A y \in S : x <= y IN <<m>> \o SortedSeq(S \ {m})

\* The positions of the Title elements of the document, in input order.
TitlePositions == SortedSeq({i \in DOMAIN elements : elements[i].kind = "Title"})

\* The positions of the Titles after the first.
LaterTitles == IF TitlePositions = <<>> THEN <<>> ELSE Tail(TitlePositions)

HeadingsNonEmpty == \A i \in DOMAIN elements : elements[i].kind = "Title" => elements[i].text # <<>>

\* The elements of the given kinds strictly between positions lo and hi, in input order.
ElementsBetween(lo, hi, kinds) ==
  LET idx == SortedSeq({i \in DOMAIN elements : lo < i /\ i < hi /\ elements[i].kind \in kinds})
  IN [k \in DOMAIN idx |-> elements[idx[k]]]

TextsOf(els) == [k \in DOMAIN els |-> els[k].text]

LineKinds == {"NarrativeText", "ListItem"}
ContentKinds == {"NarrativeText", "ListItem", "Table", "Image", "FigureCaption", "Text"}

\* The position where the section opened by the k-th of the positions ps ends.
EndOf(ps, k) == IF k < Len(ps) THEN ps[k + 1] ELSE Len(elements) + 1

\* A parse pass has just run (A), has run (B: every method runs one when
\* self.sections is empty, and none empties it).
A_Parsed == variant = "A" /\ ret.op = "parse_sections"
B_Parsed == variant = "B" /\ ret.op # "__init__"

DistinctTitles == Cardinality({elements[i].text : i \in {j \in DOMAIN elements : elements[j].kind = "Title"}})

\* Whether a NarrativeText or ListItem lies before the second Title.
LinesBeforeSecondTitle == ElementsBetween(0, EndOf(TitlePositions, 1), LineKinds) # <<>>

\* C2 as stated, read over headings with non-empty text (the reading kindest to
\* it): over a document with a Heading after the first, A yields as many sections
\* as Titles minus one, and B as many as distinct Title texts.
C2_Original ==
  /\ (A_Parsed /\ Len(TitlePositions) >= 2 /\ HeadingsNonEmpty) =>
       Len(sections) = Len(TitlePositions) - 1
  /\ (B_Parsed /\ Len(TitlePositions) >= 2) => Len(sections) = DistinctTitles

\* C2 amended: over a document with a Heading after the first, A yields, when every
\* heading has non-empty text, as many sections as Titles minus one, plus one (the
\* "Introduction" section) when a NarrativeText or ListItem lies before the second
\* Title; B yields as many sections as distinct Title texts.
C2_SectionCount ==
  /\ (A_Parsed /\ Len(TitlePositions) >= 2 /\ HeadingsNonEmpty) =>
       Len(sections) = Len(TitlePositions) - 1 + (IF LinesBeforeSecondTitle THEN 1 ELSE 0)
  /\ (B_Parsed /\ Len(TitlePositions) >= 2) => Len(sections) = DistinctTitles

\* A document of A with text between its first and second Title: one section more.
C2_Witness ==
  /\ A_Parsed /\ HeadingsNonEmpty
  /\ Len(TitlePositions) = 2
  /\ elements[1].kind = "Title"
  /\ LinesBeforeSecondTitle
  /\ Len(sections) = 2

IsPrefix(p, s) == Len(p) <= Len(s) /\ SubSeq(s, 1, Len(p)) = p

\* The content elements before any Title.
Leading == ElementsBetween(0, EndOf(<<0>> \o TitlePositions, 1), ContentKinds)

\* C3: when content elements come before any Heading, the result of parse_sections
\* has a section titled "Introduction", at level 1, whose content starts with
\* those elements in input order (the list-based parser holds their strings).
C3_LeadingContentKept ==
  /\ (A_Parsed /\ Leading # <<>>) =>
       \E i \in DOMAIN sections :
         /\ sections[i].title = Introduction
         /\ sections[i].level = 1
         /\ IsPrefix(TextsOf(Leading), sections[i].content)
  /\ (B_Parsed /\ Leading # <<>>) =>
       /\ DictHas(sections, Introduction)
       /\ IsPrefix(Leading, DictGet(sections, Introduction))

\* The document is [c1, H, c2]: a line of text, a heading with text, a line of text.
IsLeadHeadingTail ==
  /\ Len(elements) = 3
  /\ elements[1].kind \in LineKinds
  /\ elements[2].kind = "Title" /\ elements[2].text # <<>>
  /\ elements[3].kind \in LineKinds

\* C4: over [c1, H, c2] parse_sections yields exactly two sections, in this
\* order: "Introduction" holding only c1, then H holding only c2.
C4_HeadingAfterLeadOpensSection ==
  /\ (A_Parsed /\ IsLeadHeadingTail) =>
       /\ Len(sections) = 2
       /\ sections[1].title = Introduction /\ sections[1].content = <<elements[1].text>>
       /\ sections[2].title = elements[2].text /\ sections[2].content = <<elements[3].text>>
  /\ (B_Parsed /\ IsLeadHeadingTail) =>
       /\ Len(sections) = 2
       /\ sections[1].key = Introduction /\ sections[1].value = <<elements[1]>>
       /\ sections[2].key = elements[2].text /\ sections[2].value = <<elements[3]>>

\* Two of the headings at positions ps carry the same text.
HasTwin(ps) == \E j, k \in DOMAIN ps : j < k /\ elements[ps[j]].text = elements[ps[k]].text

\* C5: when two section-opening headings carry the same (non-empty) text, the
\* result holds one entry per section-opening heading, in the order of the
\* headings, each with the content that followed its own heading: no entry is
\* overwritten or merged. The headings that open a section are the Titles after
\* the first in A (after a possible "Introduction" entry) and every Title in B.
C5_SameTitleSeparateEntries ==
  /\ (A_Parsed /\ HeadingsNonEmpty /\ HasTwin(LaterTitles)) =>
       LET off == Len(sections) - Len(LaterTitles)
       IN /\ off \in {0, 1}
          /\ \A k \in DOMAIN LaterTitles :
               /\ sections[off + k].title = elements[LaterTitles[k]].text
               /\ sections[off + k].content =
                    TextsOf(ElementsBetween(LaterTitles[k], EndOf(LaterTitles, k), LineKinds))
  /\ (B_Parsed /\ HeadingsNonEmpty /\ HasTwin(TitlePositions)) =>
       /\ Len(sections) = Len(TitlePositions)
       /\ \A k \in DOMAIN TitlePositions :
            /\ sections[k].key = elements[TitlePositions[k]].text
            /\ sections[k].value =
                 ElementsBetween(TitlePositions[k], EndOf(TitlePositions, k), ContentKinds)

\* What one parse pass of a fresh instance stores.
A_SingleParse == A_parse_sections(elements)
B_SingleParse == B_parse_sections(B_Init, elements).sections

\* C6: parsing is idempotent on one instance: after any calls that parse
\* (parse_sections, or the pass that get_section, get_section_text, save_section,
\* save_sections_to_files or to_json run while sections is empty), the stored
\* sections are those of a single parse of a fresh instance: same titles, same
\* order, same content. The cursor the dict-based parser keeps between passes
\* leaves nothing of a later pass in the result.
C6_ParseIdempotent ==
  /\ (variant = "A" /\ (ret.op = "parse_sections" \/ Len(sections) > 0)) =>
       sections = A_SingleParse
  /\ B_Parsed => sections = B_SingleParse

\* The dict-based parser after a second pass (a save or export has parsed, then
\* parse_sections was called) over content that precedes a Title: the second pass
\* starts with the cursor on the last section of the first.
C6_Witness ==
  /\ variant = "B" /\ ret.op = "parse_sections"
  /\ OutDir \in dirs
  /\ Leading # <<>>
  /\ Len(TitlePositions) >= 1
  /\ cursor.current_section # None
  /\ Len(sections) >= 1

\* The step is a call of save_section with a title that matches no section of
\* the grouped collection.
SaveSectionOfAbsentTitle ==
  /\ ret'.op = "save_section"
  /\ IF variant = "A" THEN A_get_section_by_title(sections, ret'.arg) = 0
     ELSE ~DictHas(sections', ret'.arg)

\* C7 as stated (shown on headings with text): save_section with a title that
\* matches no section raises ValueError, creates no file and no directory, and
\* leaves the stored sections unchanged.
C7_Original ==
  [][(SaveSectionOfAbsentTitle /\ HeadingsNonEmpty) =>
       /\ ret'.tag = "ValueError"
       /\ files' = files /\ dirs' = dirs
       /\ sections' = sections]_vars

\* C7 amended: save_section with a title that matches no section raises
\* ValueError and creates no file and no directory; the stored sections are
\* unchanged, except that the dict-based parser whose sections are still empty
\* first stores the result of the parse pass that get_section runs.
C7_AbsentTitleWritesNothing ==
  [][SaveSectionOfAbsentTitle =>
       /\ ret'.tag = "ValueError"
       /\ files' = files /\ dirs' = dirs
       /\ IF variant = "B" /\ Len(sections) = 0
          THEN sections' = B_parse_sections(BState, elements).sections
          ELSE sections' = sections]_vars

\* save_section has raised for a title the parsed dict does not hold, and nothing
\* is written.
C7_Witness ==
  /\ variant = "B"
  /\ ret.op = "save_section" /\ ret.tag = "ValueError"
  /\ Len(sections) >= 1 /\ ~DictHas(sections, ret.arg)
  /\ DOMAIN files = {} /\ dirs = {}

\* The title is present in the grouped collection.
Present(title) ==
  IF variant = "A" THEN A_get_section_by_title(sections, title) # 0
  ELSE DictHas(sections, title)

\* C8: a title counts as found exactly when it is present: get_section and
\* get_section_text return None exactly for an absent title, save_section raises
\* the not-found error exactly for an absent title (a present section may be
\* empty), and save_sections_to_files saves every section without raising.
\* Stated over headings with text.
C8_FoundIffPresent ==
  HeadingsNonEmpty =>
    /\ ret.op \in {"get_section", "get_section_text"} =>
         (ret.tag = "None" <=> ~Present(ret.arg))
    /\ ret.op = "save_section" => (ret.tag = "ValueError" <=> ~Present(ret.arg))
    /\ ret.op = "save_sections_to_files" => ret.tag = "void"

\* The name of a file of the output directory, <<>> for any other path.
NameInOutDir(path) ==
  IF StartsWith(path, OutDir \o <<"/">>) THEN SubSeq(path, Len(OutDir) + 2, Len(path)) ELSE <<>>

\* The titles of the stored sections.
SectionTitles ==
  IF variant = "A" THEN {sections[i].title : i \in DOMAIN sections}
  ELSE {sections[i].key : i \in DOMAIN sections}

\* C9: every file save_section and save_sections_to_files write is named
\* <stem>.txt or <stem>_image_<n>.png, where stem is the title of a section with
\* every non-alphanumeric character replaced by an underscore: the name before the
\* extension holds alphanumerics and underscores only.
C9_SafeFileNames ==
  \A path \in DOMAIN files :
    LET name == NameInOutDir(path)
        base == SubSeq(name, 1, Len(name) - 4)
        ext == SubSeq(name, Len(name) - 3, Len(name))
    IN (name # <<>> /\ name # JsonName) =>
         /\ ext \in {TxtExt, PngExt}
         /\ \A i \in DOMAIN base : IsAlnum(base[i]) \/ base[i] = "_"
         /\ \E title \in SectionTitles : IsPrefix(SafeTitle(title), base)
         /\ ext = TxtExt => \E title \in SectionTitles : base = SafeTitle(title)

\* C10: after save_sections_to_files of the list-based parser, for every section
\* the file <stem>.txt of the output directory holds exactly str(section).
\* Stated over headings with text.
C10_FilesHoldRenders ==
  (variant = "A" /\ ret.op = "save_sections_to_files" /\ HeadingsNonEmpty) =>
    \A i \in DOMAIN sections :
      /\ A_file_path(sections[i]) \in DOMAIN files
      /\ files[A_file_path(sections[i])] = SectionStr(sections[i])

\* What the style name determines: the final decimal digit of a name that starts
\* with "heading" in any case, and 1 otherwise.
ExpectedLevel(style) ==
  IF style \notin {None, Missing} /\ StartsWith(Lower(style), Heading)
     /\ style[Len(style)] \in Digit
  THEN CHOOSE d \in 0..9 : IntToStr(d) = <<style[Len(style)]>>
  ELSE 1

\* C11: _get_heading_level never raises, for any heading metadata: it returns
\* the final digit d of a style name that starts with "heading" ignoring case,
\* and 1 when the style name is absent, does not start with "heading", or does
\* not end in a digit.
C11_HeadingLevelNeverRaises ==
  ret.op = "_get_heading_level" =>
    /\ ret.tag = "int"
    /\ ret.value = ExpectedLevel(ret.arg)

JsonPath == PathJoin(OutDir, JsonName)

\* The 1-based index of the image at position i among the images of a section.
ImageIndex(els, i) == Cardinality({j \in 1..i : els[j].kind = "Image"})

\* No file but the JSON file is created or changed by the step.
OnlyJsonWritten ==
  \A p \in DOMAIN files' : p # JsonPath => (p \in DOMAIN files /\ files'[p] = files[p])

\* C12: in to_json, for every Image element that carries raw bytes b of a section
\* titled t: with an image directory d, b is written to d/t_image_n.png with n
\* the 1-based index of the image in its section, the element record carries
\* image_file = that path and no image_base64, and the file holds exactly b;
\* without an image directory the record carries image_base64 = base64(b) and
\* no image_file, and no image file is written.  Stated over headings with text.
C12_ImageExport ==
  [][(ret'.op = "to_json" /\ HeadingsNonEmpty) =>
       \A k \in DOMAIN sections' : \A i \in DOMAIN sections'[k].value :
         LET e == sections'[k].value[i]
             rec == files'[JsonPath][k].elements[i]
             path == PathJoin(ret'.arg,
                              sections'[k].key \o ImageInfix
                                \o IntToStr(ImageIndex(sections'[k].value, i)) \o PngExt)
         IN (e.kind = "Image" /\ e.image # <<>>) =>
              IF ret'.arg # <<>>
              THEN /\ rec.image_file = path
                   /\ rec.image_base64 = None
                   /\ path \in DOMAIN files'
                   /\ files'[path] = e.image
              ELSE /\ rec.image_base64 = B64Encode(e.image)
                   /\ rec.image_file = None
                   /\ OnlyJsonWritten]_vars

\* No two headings of the document carry the same text.
TitlesDistinct == Len(TitlePositions) = DistinctTitles

\* C13: every non-heading element of any kind that arrives while a section is
\* open is appended to that section: over headings with distinct non-empty
\* texts, the section of each section-opening heading (A: every Title after the
\* first, B: every Title) holds exactly the non-heading elements up to the next
\* Title (A: their strings), each once and in input order.
C13_OpenSectionCollectsAll ==
  (HeadingsNonEmpty /\ TitlesDistinct) =>
    /\ A_Parsed =>
         LET later == LaterTitles
             off == Len(sections) - Len(later)
         IN \A k \in DOMAIN later :
              /\ off \in {0, 1}
              /\ sections[off + k].title = elements[later[k]].text
              /\ sections[off + k].content =
                   TextsOf(ElementsBetween(later[k], EndOf(later, k), ContentKinds))
    /\ B_Parsed =>
         \A k \in DOMAIN TitlePositions :
           LET title == elements[TitlePositions[k]].text
           IN /\ DictHas(sections, title)
              /\ DictGet(sections, title) =
                   ElementsBetween(TitlePositions[k], EndOf(TitlePositions, k), ContentKinds)

====
